---- MODULE Spec2Model ----
(***************************************************************************)
(* Game-state engine of the PikaGirl clicker (docs/script.js): economy,    *)
(* prestige reset, temporal modifiers, achievements and throttled          *)
(* persistence, as one state machine.                                      *)
(*                                                                         *)
(* Units.  Time is in milliseconds.  critChance is held in hundredths      *)
(* (0.02 is 2, the 0.5 cap is 50): the code only ever adds 0.01 and clamps *)
(* with Math.min(0.5, .), and IEEE doubles give 0.5 exactly at the clamp.  *)
(* Gains are floor(product) of small integers and (1 + prestigeBonus/100); *)
(* they are computed here as an integer quotient, which coincides with the *)
(* double evaluation for every prestigeBonus <= 30 used by the bounds.     *)
(***************************************************************************)
EXTENDS Integers, Sequences, FiniteSets, TLC

VARIABLES
    state,           \* the `state` object (script.js:32-66) plus skins
    now,             \* Date.now()
    lastPersist,     \* __lastPersist
    pendingPersist,  \* __pendingPersist
    persistDue,      \* due time of the trailing setTimeout of throttlePersist
    clickerState,    \* localStorage["clickerState"]: <<>> or <<snapshot>>
    nextAutoTick,    \* due time of the auto-click setInterval
    nextDailyTick,   \* due time of the daily-challenge setInterval
    timedIntervals,  \* due times of the running timed-mode setIntervals
    dailyKey,        \* localStorage["dailyKey"]: 0 when absent, else a day
    dailyStarted,    \* localStorage["dailyStarted"]: 0 when absent, else a day
    today,           \* the calendar day of new Date().toDateString()
    scores,          \* localStorage["scores"]: the leaderboard, best first
    importToast,     \* the last notification of the import handler, or ""
    backups,         \* localStorage["clicker_backup_..."]: the backup texts
    announced        \* how many times each achievement text was announced

vars == <<state, now, lastPersist, pendingPersist, persistDue, clickerState,
          nextAutoTick, nextDailyTick, timedIntervals, dailyKey, dailyStarted,
          today, scores, importToast, backups, announced>>

----------------------------------------------------------------------------
(* Bounds of the model *)

MaxScore == 900
MaxClicks == 1
MaxAuto == 2
MaxMult == 2
MaxCritBuys == 1
MaxPrestige == 1
MaxTime == 66000
MaxSaves == 2
MaxAnnounced == 2
MaxCountdowns == 2
MaxMilestoneClicks == 101

(* Program constants *)

StartTime == 5000
TimeStep == 1000
TickMs == 1000
PERSIST_THROTTLE_MS == 1000
BoostMs == 30000
DailyMs == 600000
TimedSeconds == 60
CritChanceCap == 50
CritPowerCap == 50
CritChanceStep == 1
CritPowerStep == 5
PrestigeBonusStep == 10
PrestigeCostDefault == 20000
LeaderboardSize == 10

BonusValues == {500, 900}
DailyTargets == {3000, 9000}
DailyRewards == {3, 9}

SKINS == << [id |-> "default", cost |-> 0],
           [id |-> "gif2", cost |-> 5000],
           [id |-> "pixel", cost |-> 15000] >>

clickMilestones == {100, 1000, 10000, 100000, 1000000, 10000000}

----------------------------------------------------------------------------
(* Helpers *)

Min(a, b) == IF a <= b THEN a ELSE b
Max(a, b) == IF a >= b THEN a ELSE b

\* Achievement message texts; a and b are the numbers interpolated in them.
Msg(k, a, b) == [k |-> k, a |-> a, b |-> b]

\* The sound channels and the `volumes` map (script.js:235-240), in percent.
Channels == {"music", "click", "crit", "achievement"}

DefaultVolumes ==
    [c \in Channels |-> CASE c = "music" -> 50
                          [] c = "click" -> 85
                          [] c = "crit" -> 50
                          [] c = "achievement" -> 25]

\* a map with no channel set
NoVolumes == [c \in {} |-> 0]

\* Object.assign(target, source) on channel maps
AssignVolumes(target, source) ==
    [c \in DOMAIN target \cup DOMAIN source |->
        IF c \in DOMAIN source THEN source[c] ELSE target[c]]

\* The literal of `state`, with the fields the script adds to it later
\* (ownedSkins, currentSkin, soundVolumes, soundType: {} / "" / no channel
\* stand for undefined) and the global `volumes` map.
DefaultState ==
    [ score |-> 0, totalClicks |-> 0,
      autoClickers |-> 0, autoClickCost |-> 500,
      multiplier |-> 1, multiplierCost |-> 1000,
      critChance |-> 2, critPower |-> 5,
      critChanceCost |-> 2000, critPowerCost |-> 3000,
      tempBoostActive |-> FALSE, tempBoostEnd |-> 0, tempBoostCost |-> 300,
      prestigeCount |-> 0, prestigeBonus |-> 0, prestigeCost |-> 20000,
      bestTimed |-> 0, timedActive |-> FALSE, timedTimeLeft |-> 60,
      timedScore |-> 0,
      daily |-> [active |-> FALSE, target |-> 5000, rewardPct |-> 5,
                 expiresAt |-> 0, claimedToday |-> FALSE],
      achievementsUnlocked |-> {},
      pseudo |-> "", theme |-> "normal", soundOn |-> TRUE, musicOn |-> FALSE,
      ownedSkins |-> {}, currentSkin |-> "",
      soundVolumes |-> NoVolumes, soundType |-> "",
      volumes |-> DefaultVolumes ]

\* The fields persist() writes.
AllowListed ==
    { "score", "totalClicks", "autoClickers", "autoClickCost", "multiplier",
      "multiplierCost", "critChance", "critPower", "critChanceCost",
      "critPowerCost", "tempBoostActive", "tempBoostEnd", "tempBoostCost",
      "prestigeCount", "prestigeBonus", "prestigeCost", "bestTimed",
      "achievementsUnlocked", "daily", "ownedSkins", "currentSkin",
      "pseudo", "theme", "soundOn", "musicOn", "volumes", "soundVolumes",
      "soundType" }

\* a field whose value is undefined
Undefined(f, v) ==
    \/ f = "ownedSkins" /\ v = {}
    \/ f \in {"currentSkin", "soundType"} /\ v = ""
    \/ f = "soundVolumes" /\ DOMAIN v = {}

\* a snapshot that leaves the skins out
SnapshotNoSkins(st) ==
    [f \in {g \in AllowListed \ {"ownedSkins", "currentSkin"} :
               ~Undefined(g, st[g])} |-> st[f]]

\* JSON.parse(JSON.stringify({...})) of persist(): the allow-listed fields,
\* those whose value is undefined left out
Snapshot(st) ==
    [f \in {g \in AllowListed : ~Undefined(g, st[g])} |-> st[f]]

\* The mutable world a handler runs in; handlers are composed as functions
\* on it and committed to the variables at the end of the action.
World ==
    [ state |-> state, lastPersist |-> lastPersist,
      pendingPersist |-> pendingPersist, persistDue |-> persistDue,
      clickerState |-> clickerState, announced |-> announced ]

Commit(w) ==
    /\ state' = w.state
    /\ lastPersist' = w.lastPersist
    /\ pendingPersist' = w.pendingPersist
    /\ persistDue' = w.persistDue
    /\ clickerState' = w.clickerState
    /\ announced' = w.announced

persist(w) == [w EXCEPT !.clickerState = <<Snapshot(w.state)>>]

\* a throttle whose deferred call always arms a timer
throttlePersistRearm(w) ==
    IF now - w.lastPersist > PERSIST_THROTTLE_MS
    THEN persist([w EXCEPT !.lastPersist = now])
    ELSE [w EXCEPT !.pendingPersist = TRUE,
                   !.persistDue = now + PERSIST_THROTTLE_MS]

throttlePersist(w) ==
    IF now - w.lastPersist > PERSIST_THROTTLE_MS
    THEN persist([w EXCEPT !.lastPersist = now])
    ELSE IF ~w.pendingPersist
         THEN [w EXCEPT !.pendingPersist = TRUE,
                        !.persistDue = now + PERSIST_THROTTLE_MS]
         ELSE w

\* the list item, toast and sound of one announcement of `text`; the count
\* stops at MaxAnnounced
Announce(a, text) ==
    IF text \in DOMAIN a
    THEN [a EXCEPT ![text] = Min(@ + 1, MaxAnnounced)]
    ELSE a @@ (text :> 1)

unlockAchievement(w, text) ==
    IF text \in w.state.achievementsUnlocked
    THEN w
    ELSE throttlePersist(
           [w EXCEPT !.state.achievementsUnlocked = @ \cup {text},
                     !.announced = Announce(@, text)])

\* the auto-click price scaled like the other prices (x2)
ScaleAutoDouble(cost) == cost * 2

\* the auto-click price scaled by the inverse factor
ScaleAutoDown(cost) == (cost * 2) \div 3

\* floor(cost * 1.5)
ScaleAuto(cost) == (cost * 3) \div 2

\* the price scaled by the auto-click factor instead of doubled
ScaleDoubleAsAuto(cost) == (cost * 3) \div 2

\* floor(cost * 2)
ScaleDouble(cost) == cost * 2

\* a click gain that forgets the temporary boost
ClickGainNoBoost(st, isCrit) ==
    (st.multiplier * (100 + st.prestigeBonus)
        * (IF isCrit THEN st.critPower ELSE 1)) \div 100

\* floor(multiplier * (boost ? 2 : 1) * (1 + prestigeBonus/100) * (crit ? critPower : 1))
ClickGain(st, isCrit) ==
    (st.multiplier * (IF st.tempBoostActive THEN 2 ELSE 1)
        * (100 + st.prestigeBonus) * (IF isCrit THEN st.critPower ELSE 1))
    \div 100

\* a passive gain that forgets the prestige bonus
AutoGainNoPrestige(st) ==
    st.autoClickers * st.multiplier * (IF st.tempBoostActive THEN 2 ELSE 1)

\* floor(autoClickers * multiplier * (boost ? 2 : 1) * (1 + prestigeBonus/100))
AutoGain(st) ==
    (st.autoClickers * st.multiplier * (IF st.tempBoostActive THEN 2 ELSE 1)
        * (100 + st.prestigeBonus)) \div 100

\* a check that looks at the count of clicks before the click
checkClickAchievementsLate(w) ==
    LET w1 == IF w.state.totalClicks - 1 \in clickMilestones
              THEN unlockAchievement(w,
                      Msg("clicks", w.state.totalClicks - 1, 0))
              ELSE w
    IN IF w1.state.timedActive
       THEN [w1 EXCEPT !.state.timedScore = @ + w1.state.multiplier]
       ELSE w1

\* checkClickAchievements(), with the timed-mode bonus of a click
checkClickAchievements(w) ==
    LET w1 == IF w.state.totalClicks \in clickMilestones
              THEN unlockAchievement(w, Msg("clicks", w.state.totalClicks, 0))
              ELSE w
    IN IF w1.state.timedActive
       THEN [w1 EXCEPT !.state.timedScore = @ + w1.state.multiplier]
       ELSE w1

checkUpgradeAchievements(w) ==
    LET w1 == IF w.state.autoClickers > 0 /\ w.state.autoClickers % 10 = 0
              THEN unlockAchievement(w, Msg("auto", w.state.autoClickers, 0))
              ELSE w
    IN IF w1.state.multiplier > 0 /\ w1.state.multiplier % 10 = 0
       THEN unlockAchievement(w1, Msg("mult", w1.state.multiplier, 0))
       ELSE w1

----------------------------------------------------------------------------
(* Initial state: the script has run to its end.  initVolumeControls() has  *)
(* called loadPersisted(), so the defaults are overwritten by the snapshot  *)
(* an earlier session left in localStorage, if there is one.  The clock     *)
(* stands at a tick boundary: both 1 Hz callbacks are due.                  *)

\* a load that reads the leading object of a text that does not parse
loadPersistedLenient(st, stored) ==
    IF stored = <<>>
    THEN st
    ELSE [f \in DOMAIN st |->
            IF f \in DOMAIN stored[1] THEN stored[1][f] ELSE st[f]]

\* loadPersisted(): Object.assign(state, s), then the migration default and
\* the merges into `volumes`.  A stored text is <<>> when the key is absent,
\* <<s>> when it is the JSON text of s, and longer when it does not parse.
loadPersisted(st, stored) ==
    IF stored = <<>>
    THEN st
    ELSE IF Len(stored) # 1
    THEN st
    ELSE LET s == stored[1]
             merged == [f \in DOMAIN st |->
                          IF f \in DOMAIN s THEN s[f] ELSE st[f]]
             migrated == [merged EXCEPT !.prestigeCost =
                            IF @ = 0 THEN PrestigeCostDefault ELSE @]
             v1 == IF "volumes" \in DOMAIN s
                   THEN AssignVolumes(st.volumes, s.volumes)
                   ELSE st.volumes
             v2 == IF "soundVolumes" \in DOMAIN s
                   THEN AssignVolumes(v1, s.soundVolumes)
                   ELSE v1
         IN [migrated EXCEPT !.volumes = v2]

\* loadPersisted() when the call of setTheme at 1832 throws: the catch ends
\* the load right after Object.assign(state, s); `volumes` is not merged
loadPersistedThemeless(st, stored) ==
    IF stored = <<>>
    THEN st
    ELSE IF Len(stored) # 1
    THEN st
    ELSE LET s == stored[1]
         IN [f \in DOMAIN st |->
               IF f \in DOMAIN s /\ f # "volumes" THEN s[f] ELSE st[f]]

\* initVolumeControls() after its loadPersisted(): soundVolumes defaults to
\* a copy of `volumes` and is merged into `volumes`
initVolumeControls(st) ==
    LET sv == IF DOMAIN st.soundVolumes = {} THEN st.volumes
              ELSE st.soundVolumes
    IN [st EXCEPT !.soundVolumes = sv,
                  !.volumes = AssignVolumes(@, sv)]

\* the state once the script has run on a page load
pageLoad(stored) == initVolumeControls(loadPersisted(DefaultState, stored))

\* the state of a first visit
FirstVisit == pageLoad(<<>>)

\* What an earlier session of the same day can have left in localStorage:
\* nothing, or the snapshot of a session that banked 20500 points from bonus
\* pickups and started the daily challenge (default target) a tick ago.
SavedSession ==
    [FirstVisit EXCEPT
       !.score = 20500,
       !.achievementsUnlocked = {Msg("dailyStart", 0, 0)},
       !.daily = [active |-> TRUE, target |-> 5000, rewardPct |-> 5,
                  expiresAt |-> StartTime - TickMs + DailyMs,
                  claimedToday |-> FALSE]]

\* The snapshot of a session that has prestiged once, bought five
\* auto-clickers since (50, 75, 112, 168 and 252 points) and kept 400 points.
VeteranSession ==
    [FirstVisit EXCEPT
       !.score = 400,
       !.prestigeCount = 1,
       !.prestigeBonus = 10,
       !.prestigeCost = 40000,
       !.autoClickers = 5,
       !.autoClickCost = 378,
       !.critChance = 10,
       !.critPower = 10,
       !.achievementsUnlocked = {Msg("prestige", 1, 0)}]

EarlierSessions ==
    { <<>>, <<Snapshot(SavedSession)>>, <<Snapshot(VeteranSession)>> }

Init ==
    /\ clickerState \in EarlierSessions
    /\ state = pageLoad(clickerState)
    /\ today = 1
    /\ dailyKey = (IF clickerState = <<>> THEN 0 ELSE today)
    /\ dailyStarted = (IF clickerState = <<>> THEN 0 ELSE today)
    /\ now = StartTime
    /\ lastPersist = 0
    /\ pendingPersist = FALSE
    /\ persistDue = 0
    /\ nextAutoTick = StartTime
    /\ nextDailyTick = StartTime
    /\ timedIntervals = <<>>
    /\ scores = <<>>
    /\ importToast = ""
    /\ backups = {}
    /\ announced = [t \in state.achievementsUnlocked |-> 1]

\* The variables no economy handler touches.
Timers == <<nextAutoTick, nextDailyTick, timedIntervals, dailyKey,
            dailyStarted, today, scores, importToast,
                   backups>>

\* showToast(text): a notification only, no engine state changes
showToast(text) == TRUE

----------------------------------------------------------------------------
(* Economy engine *)

\* a guard that only asks for a positive balance
CanAffordLoose(st, cost) == st.score > 0

\* the purchase guard: state.score >= cost
CanAfford(st, cost) == st.score >= cost

\* el.clickButton click handler; isCrit is Math.random() < state.critChance
clickButton(isCrit) ==
    /\ isCrit => state.critChance > 0
    /\ LET w1 == [World EXCEPT
                    !.state.score = @ + ClickGain(state, isCrit),
                    !.state.totalClicks = @ + 1]
       IN Commit(checkClickAchievements(w1))
    /\ UNCHANGED <<now, Timers>>

\* a click of a short session: at most MaxClicks clicks
Click(isCrit) ==
    /\ state.totalClicks < MaxClicks
    /\ clickButton(isCrit)

upgradeAuto ==
    /\ IF CanAfford(state, state.autoClickCost)
       THEN /\ state.autoClickers < MaxAuto
            /\ LET w1 == [World EXCEPT
                            !.state.score = @ - state.autoClickCost,
                            !.state.autoClickers = @ + 1,
                            !.state.autoClickCost = ScaleAuto(@)]
               IN Commit(throttlePersist(checkUpgradeAchievements(w1)))
       ELSE /\ Commit(World)
            /\ showToast("Pas assez de points !")
    /\ UNCHANGED <<now, Timers>>

upgradeMult ==
    /\ IF CanAfford(state, state.multiplierCost)
       THEN /\ state.multiplier < MaxMult
            /\ LET w1 == [World EXCEPT
                            !.state.score = @ - state.multiplierCost,
                            !.state.multiplier = @ + 1,
                            !.state.multiplierCost = ScaleDouble(@)]
               IN Commit(throttlePersist(checkUpgradeAchievements(w1)))
       ELSE /\ Commit(World)
            /\ showToast("Pas assez de points !")
    /\ UNCHANGED <<now, Timers>>

\* critChance + 0.01 without the clamp
NextCritChanceNoCap(c) == c + CritChanceStep

\* Math.min(0.5, critChance + 0.01), in hundredths
NextCritChance(c) == Min(CritChanceCap, c + CritChanceStep)

\* Math.min(50, critPower + 5)
NextCritPower(p) == Min(CritPowerCap, p + CritPowerStep)

upgradeCritChance ==
    /\ IF CanAfford(state, state.critChanceCost)
       THEN /\ state.critChanceCost <= 2000 * (2 ^ (MaxCritBuys - 1))
            /\ LET w1 == [World EXCEPT
                            !.state.score = @ - state.critChanceCost,
                            !.state.critChance = NextCritChance(@),
                            !.state.critChanceCost = ScaleDouble(@)]
                   w2 == unlockAchievement(w1,
                            Msg("crit", w1.state.critChance, 0))
               IN Commit(throttlePersist(w2))
       ELSE /\ Commit(World)
            /\ showToast("Pas assez de points !")
    /\ UNCHANGED <<now, Timers>>

upgradeCritPower ==
    /\ IF CanAfford(state, state.critPowerCost)
       THEN /\ state.critPowerCost <= 3000 * (2 ^ (MaxCritBuys - 1))
            /\ LET w1 == [World EXCEPT
                            !.state.score = @ - state.critPowerCost,
                            !.state.critPower = NextCritPower(@),
                            !.state.critPowerCost = ScaleDouble(@)]
               IN Commit(throttlePersist(w1))
       ELSE /\ Commit(World)
            /\ showToast("Pas assez de points !")
    /\ UNCHANGED <<now, Timers>>

\* a purchase that never moves the end of a running boost earlier
upgradeTempBoostKeepsLater ==
    /\ IF CanAfford(state, state.tempBoostCost)
       THEN /\ state.tempBoostEnd # now + BoostMs
            /\ LET w1 == [World EXCEPT
                            !.state.score = @ - state.tempBoostCost,
                            !.state.tempBoostActive = TRUE,
                            !.state.tempBoostEnd =
                                IF state.tempBoostActive
                                THEN Max(@, now + BoostMs)
                                ELSE now + BoostMs]
               IN Commit(throttlePersist(w1))
       ELSE /\ Commit(World)
            /\ showToast("Pas assez de points !")
    /\ UNCHANGED <<now, Timers>>

\* el.upgradeTempBoost click handler
upgradeTempBoost ==
    /\ IF CanAfford(state, state.tempBoostCost)
       THEN /\ state.tempBoostEnd # now + BoostMs
            /\ LET w1 == [World EXCEPT
                            !.state.score = @ - state.tempBoostCost,
                            !.state.tempBoostActive = TRUE,
                            !.state.tempBoostEnd = now + BoostMs]
               IN Commit(throttlePersist(w1))
       ELSE /\ Commit(World)
            /\ showToast("Pas assez de points !")
    /\ UNCHANGED <<now, Timers>>

\* click handler of the shop button of SKINS[i]
buySkin(i) ==
    /\ LET s == SKINS[i] IN
       IF s.id \notin state.ownedSkins
       THEN IF CanAfford(state, s.cost)
            THEN /\ LET w1 == [World EXCEPT
                                 !.state.score = @ - s.cost,
                                 !.state.ownedSkins = @ \cup {s.id},
                                 !.state.currentSkin = s.id]
                    IN Commit(throttlePersist(w1))
            ELSE /\ Commit(World)
                 /\ showToast("Pas assez de points pour acheter ce skin")
       ELSE /\ Commit(throttlePersist(
                      [World EXCEPT !.state.currentSkin = s.id]))
    /\ UNCHANGED <<now, Timers>>

\* el.bonusButton click handler; bonus is floor(100 + Math.random()*900)
bonusButton(bonus) ==
    /\ state.score + bonus <= MaxScore
    /\ Commit([World EXCEPT
                 !.state.score = @ + bonus,
                 !.state.timedScore =
                     IF state.timedActive THEN @ + bonus ELSE @])
    /\ UNCHANGED <<now, Timers>>

----------------------------------------------------------------------------
(* Prestige controller *)

\* state.prestigeCost || 20000
PrestigeCostOr(st) ==
    IF st.prestigeCost = 0 THEN PrestigeCostDefault ELSE st.prestigeCost

\* a soft reset that leaves the auto-clickers in place
softResetKeepsAuto(st) ==
    [st EXCEPT !.totalClicks = 0,
               !.autoClickCost = 50,
               !.multiplier = 1,
               !.multiplierCost = 1000,
               !.critChance = 10,
               !.critPower = 10,
               !.critChanceCost = 2000,
               !.critPowerCost = 3000,
               !.tempBoostActive = FALSE,
               !.tempBoostEnd = 0]

\* the soft reset of progress in the doPrestige handler
softReset(st) ==
    [st EXCEPT !.totalClicks = 0,
               !.autoClickers = 0,
               !.autoClickCost = 50,
               !.multiplier = 1,
               !.multiplierCost = 1000,
               !.critChance = 10,
               !.critPower = 10,
               !.critChanceCost = 2000,
               !.critPowerCost = 3000,
               !.tempBoostActive = FALSE,
               !.tempBoostEnd = 0]

\* el.doPrestige click handler; confirmed is the answer to confirm()
doPrestige(confirmed) ==
    /\ IF ~CanAfford(state, PrestigeCostOr(state))
       THEN /\ Commit(World)
            /\ showToast("Pas assez de points pour effectuer un prestige")
       ELSE IF ~confirmed
       THEN /\ Commit(World)
       ELSE /\ state.prestigeCount < MaxPrestige
            /\ LET w1 == [World EXCEPT !.state = softReset(
                            [state EXCEPT
                               !.score = @ - state.prestigeCost,
                               !.prestigeCount = @ + 1,
                               !.prestigeBonus = @ + PrestigeBonusStep,
                               !.prestigeCost =
                                   ScaleDouble(PrestigeCostOr(state))])]
                   w2 == unlockAchievement(w1,
                            Msg("prestige", w1.state.prestigeCount, 0))
               IN Commit(throttlePersist(w2))
    /\ UNCHANGED <<now, Timers>>

----------------------------------------------------------------------------
(* Temporal modifier scheduler *)

\* an auto loop that ends the boost at the end time itself
autoClickLoopEarlyExpiry ==
    /\ nextAutoTick <= now
    /\ LET w1 == IF state.autoClickers > 0
                 THEN [World EXCEPT
                         !.state.score = @ + AutoGain(state),
                         !.state.timedScore =
                             IF state.timedActive
                             THEN @ + AutoGain(state) ELSE @]
                 ELSE World
           w2 == IF w1.state.tempBoostActive /\ now >= w1.state.tempBoostEnd
                 THEN unlockAchievement(
                        [w1 EXCEPT !.state.tempBoostActive = FALSE],
                        Msg("boostEnd", 0, 0))
                 ELSE w1
       IN Commit(w2)
    /\ nextAutoTick' = nextAutoTick + TickMs
    /\ UNCHANGED <<now, nextDailyTick, timedIntervals, dailyKey,
                   dailyStarted, today, scores, importToast,
                   backups>>

\* the auto-click setInterval callback (1 Hz)
autoClickLoop ==
    /\ nextAutoTick <= now
    /\ LET w1 == IF state.autoClickers > 0
                 THEN [World EXCEPT
                         !.state.score = @ + AutoGain(state),
                         !.state.timedScore =
                             IF state.timedActive
                             THEN @ + AutoGain(state) ELSE @]
                 ELSE World
           w2 == IF w1.state.tempBoostActive /\ now > w1.state.tempBoostEnd
                 THEN unlockAchievement(
                        [w1 EXCEPT !.state.tempBoostActive = FALSE],
                        Msg("boostEnd", 0, 0))
                 ELSE w1
       IN Commit(w2)
    /\ nextAutoTick' = nextAutoTick + TickMs
    /\ UNCHANGED <<now, nextDailyTick, timedIntervals, dailyKey,
                   dailyStarted, today, scores, importToast,
                   backups>>

\* a start that keeps the score of the previous run
timedBeginKeepsScore(st) ==
    [st EXCEPT !.timedActive = TRUE,
               !.timedTimeLeft = TimedSeconds]

\* the writes of a start: activate, 60 seconds, score 0
timedBegin(st) ==
    [st EXCEPT !.timedActive = TRUE,
               !.timedTimeLeft = TimedSeconds,
               !.timedScore = 0]

\* a start whose achievement text carries the best score so far
startTimedNumbered ==
    /\ IF state.timedActive
       THEN /\ Commit(World)
            /\ UNCHANGED timedIntervals
       ELSE /\ LET w1 == [World EXCEPT !.state = timedBegin(state)]
               IN Commit(unlockAchievement(w1,
                            Msg("timedStart", state.bestTimed, 0)))
            /\ timedIntervals' = Append(timedIntervals, now + TickMs)
    /\ UNCHANGED <<now, nextAutoTick, nextDailyTick, dailyKey,
                   dailyStarted, today, scores, importToast,
                   backups>>

\* el.startTimedBtn click handler
startTimed ==
    /\ IF state.timedActive
       THEN /\ Commit(World)
            /\ UNCHANGED timedIntervals
       ELSE /\ LET w1 == [World EXCEPT !.state = timedBegin(state)]
               IN Commit(unlockAchievement(w1, Msg("timedStart", 0, 0)))
            /\ timedIntervals' = Append(timedIntervals, now + TickMs)
    /\ UNCHANGED <<now, nextAutoTick, nextDailyTick, dailyKey,
                   dailyStarted, today, scores, importToast,
                   backups>>

RemoveAt(seq, i) ==
    [j \in 1..(Len(seq) - 1) |-> IF j < i THEN seq[j] ELSE seq[j + 1]]

\* a countdown that stops one second early
TimedOverEarly(st) == st.timedTimeLeft <= 1

\* the end test of the countdown
TimedOver(st) == st.timedTimeLeft <= 0

\* the countdown setInterval callback created by startTimed
timedCountdown(i) ==
    /\ timedIntervals[i] <= now
    /\ LET w1 == [World EXCEPT !.state.timedTimeLeft = @ - 1]
       IN IF TimedOver(w1.state)
          THEN /\ LET w2 == [w1 EXCEPT
                               !.state.timedActive = FALSE,
                               !.state.bestTimed =
                                   Max(@, w1.state.timedScore)]
                      w3 == unlockAchievement(w2,
                               Msg("timedEnd", w2.state.timedScore,
                                   w2.state.bestTimed))
                  IN Commit(throttlePersist(w3))
               /\ timedIntervals' = RemoveAt(timedIntervals, i)
          ELSE /\ Commit(w1)
               /\ timedIntervals' =
                      [timedIntervals EXCEPT ![i] = @ + TickMs]
    /\ UNCHANGED <<now, nextAutoTick, nextDailyTick, dailyKey,
                   dailyStarted, today, scores, importToast,
                   backups>>

\* ensureDaily(forceNew); target and rewardPct are the two random draws.
\* Yields the world and the new value of localStorage["dailyKey"].
ensureDaily(w, forceNew, target, rewardPct) ==
    IF forceNew \/ dailyKey # today
    THEN [w |-> throttlePersist(
                  [w EXCEPT !.state.daily =
                      [active |-> FALSE, target |-> target,
                       rewardPct |-> rewardPct, expiresAt |-> 0,
                       claimedToday |-> FALSE]]),
          key |-> today]
    ELSE [w |-> w, key |-> dailyKey]

\* el.startDailyBtn click handler
startDaily(target, rewardPct) ==
    /\ LET e == ensureDaily(World, FALSE, target, rewardPct)
           w1 == e.w
       IN /\ dailyKey' = e.key
          /\ IF \/ dailyStarted = today
                \/ w1.state.daily.active
                \/ w1.state.daily.claimedToday
             THEN /\ Commit(w1)
                  /\ UNCHANGED dailyStarted
                  /\ showToast(
                        IF dailyStarted = today
                        THEN "Vous avez deja demarre le defi aujourd'hui."
                        ELSE IF w1.state.daily.active
                        THEN "Un defi est deja en cours."
                        ELSE "Vous avez deja reussi le defi aujourd'hui.")
             ELSE /\ LET w2 == [w1 EXCEPT
                                  !.state.daily.active = TRUE,
                                  !.state.daily.expiresAt = now + DailyMs]
                         w3 == unlockAchievement(w2, Msg("dailyStart", 0, 0))
                     IN Commit(throttlePersist(w3))
                  /\ dailyStarted' = today
          /\ UNCHANGED <<now, nextAutoTick, nextDailyTick, timedIntervals,
                         today, scores, importToast,
                   backups>>

\* a reward that claims the challenge without starting the boost
dailyRewardNoBoost(st) ==
    [st EXCEPT !.daily.claimedToday = TRUE,
               !.daily.active = FALSE,
               !.daily.expiresAt = now + DailyMs]

\* the success branch of the daily tick: claim, deactivate, start the reward
dailyReward(st) ==
    [st EXCEPT !.daily.claimedToday = TRUE,
               !.daily.active = FALSE,
               !.daily.expiresAt = now + DailyMs,
               !.tempBoostActive = TRUE,
               !.tempBoostEnd = now + DailyMs]

\* a daily tick that evaluates the expiry before the success
dailyTickExpiryFirst ==
    /\ nextDailyTick <= now
    /\ nextAutoTick > nextDailyTick
    /\ IF ~state.daily.active
       THEN Commit(World)
       ELSE IF now > state.daily.expiresAt /\ ~state.daily.claimedToday
       THEN Commit([World EXCEPT !.state.daily.active = FALSE])
       ELSE IF state.score >= state.daily.target /\ ~state.daily.claimedToday
       THEN LET w1 == [World EXCEPT !.state = dailyReward(state)]
                w2 == unlockAchievement(w1,
                         Msg("dailyDone", w1.state.daily.rewardPct, 0))
            IN Commit(throttlePersist(w2))
       ELSE Commit(World)
    /\ nextDailyTick' = nextDailyTick + TickMs
    /\ UNCHANGED <<now, nextAutoTick, timedIntervals, dailyKey,
                   dailyStarted, today, scores, importToast,
                   backups>>

\* the daily-challenge setInterval callback (1 Hz)
dailyTick ==
    /\ nextDailyTick <= now
    /\ nextAutoTick > nextDailyTick
    /\ IF ~state.daily.active
       THEN Commit(World)
       ELSE IF state.score >= state.daily.target /\ ~state.daily.claimedToday
       THEN LET w1 == [World EXCEPT !.state = dailyReward(state)]
                w2 == unlockAchievement(w1,
                         Msg("dailyDone", w1.state.daily.rewardPct, 0))
            IN Commit(throttlePersist(w2))
       ELSE IF now > state.daily.expiresAt /\ ~state.daily.claimedToday
       THEN Commit([World EXCEPT !.state.daily.active = FALSE])
       ELSE Commit(World)
    /\ nextDailyTick' = nextDailyTick + TickMs
    /\ UNCHANGED <<now, nextAutoTick, timedIntervals, dailyKey,
                   dailyStarted, today, scores, importToast,
                   backups>>

----------------------------------------------------------------------------
(* Persistence manager and clock *)

\* a trailing callback that clears the flag and writes nothing
trailingPersistDrop ==
    /\ pendingPersist
    /\ persistDue <= now
    /\ Commit([World EXCEPT !.pendingPersist = FALSE])
    /\ UNCHANGED <<now, Timers>>

\* the trailing setTimeout callback of throttlePersist
trailingPersist ==
    /\ pendingPersist
    /\ persistDue <= now
    /\ Commit(persist([World EXCEPT !.pendingPersist = FALSE,
                                    !.lastPersist = now]))
    /\ UNCHANGED <<now, Timers>>

\* Time passes; a timer that is due runs before the clock moves on.
Advance ==
    /\ now + TimeStep <= MaxTime
    /\ nextAutoTick > now
    /\ nextDailyTick > now
    /\ \A i \in 1..Len(timedIntervals) : timedIntervals[i] > now
    /\ pendingPersist => persistDue > now
    /\ now' = now + TimeStep
    /\ UNCHANGED <<state, lastPersist, pendingPersist, persistDue,
                   clickerState, Timers, announced>>

----------------------------------------------------------------------------

\* The engine within one reading of the clock: the user operations of the
\* economy and the 1 Hz callbacks that are due.
Next ==
    \/ \E isCrit \in BOOLEAN : Click(isCrit)
    \/ upgradeAuto
    \/ upgradeMult
    \/ upgradeCritChance
    \/ upgradeCritPower
    \/ upgradeTempBoost
    \/ \E bonus \in BonusValues : bonusButton(bonus)
    \/ \E confirmed \in BOOLEAN : doPrestige(confirmed)
    \/ autoClickLoop
    \/ dailyTick

Spec == Init /\ [][Next]_vars

\* Timed mode: the operations that write score or timedScore while a timed
\* session runs.
NextTimed ==
    \/ startTimed
    \/ \E isCrit \in BOOLEAN : Click(isCrit)
    \/ upgradeAuto
    \/ upgradeTempBoost
    \/ \E bonus \in BonusValues : bonusButton(bonus)
    \/ autoClickLoop

SpecTimed == Init /\ [][NextTimed]_vars

\* A session in which a throttled save has just written the snapshot (the
\* handlers that equip a skin or toggle a sound save without touching the
\* economy), so that the next save within the second is deferred.
InitShop ==
    /\ \E st \in {FirstVisit, SavedSession, VeteranSession} :
          clickerState = <<Snapshot(st)>>
    /\ state = pageLoad(clickerState)
    /\ today = 1
    /\ dailyKey = today
    /\ dailyStarted = (IF state.daily.active THEN today ELSE 0)
    /\ now = StartTime
    /\ lastPersist = StartTime
    /\ pendingPersist = FALSE
    /\ persistDue = 0
    /\ nextAutoTick = StartTime
    /\ nextDailyTick = StartTime
    /\ timedIntervals = <<>>
    /\ scores = <<>>
    /\ importToast = ""
    /\ backups = {}
    /\ announced = [t \in state.achievementsUnlocked |-> 1]

\* Every operation that writes score, with the skin shop.
NextShop ==
    \/ \E isCrit \in BOOLEAN : Click(isCrit)
    \/ upgradeAuto
    \/ upgradeMult
    \/ upgradeCritChance
    \/ upgradeCritPower
    \/ upgradeTempBoost
    \/ \E i \in 1..Len(SKINS) : buySkin(i)
    \/ \E bonus \in BonusValues : bonusButton(bonus)
    \/ \E confirmed \in BOOLEAN : doPrestige(confirmed)
    \/ autoClickLoop
    \/ dailyTick

SpecShop == InitShop /\ [][NextShop]_vars

----------------------------------------------------------------------------
(* Sessions resumed with the crit stats bought up to their caps.  The price *)
(* of a stat that close to its cap is 2000 * 2^k with k > 30, beyond the    *)
(* integers of the checker, so the snapshot carries the baseline price; the *)
(* clamp reads neither the price nor the score.                             *)

CritChanceSaved == {2, 48, 49, 50}
CritPowerSaved == {5, 40, 45, 50}
CritScoreSaved == {6000, 26000}

InitCrit ==
    /\ \E c \in CritChanceSaved, q \in CritPowerSaved, sc \in CritScoreSaved :
          clickerState = <<Snapshot([FirstVisit   EXCEPT
                                       !.critChance = c,
                                       !.critPower = q,
                                       !.score = sc])>>
    /\ state = pageLoad(clickerState)
    /\ today = 1
    /\ dailyKey = 0
    /\ dailyStarted = 0
    /\ now = StartTime
    /\ lastPersist = 0
    /\ pendingPersist = FALSE
    /\ persistDue = 0
    /\ nextAutoTick = StartTime
    /\ nextDailyTick = StartTime
    /\ timedIntervals = <<>>
    /\ scores = <<>>
    /\ importToast = ""
    /\ backups = {}
    /\ announced = [t \in state.achievementsUnlocked |-> 1]

NextCrit ==
    \/ upgradeCritChance
    \/ upgradeCritPower
    \/ \E isCrit \in BOOLEAN : Click(isCrit)
    \/ \E confirmed \in BOOLEAN : doPrestige(confirmed)
    \/ autoClickLoop

SpecCrit == InitCrit /\ [][NextCrit]_vars

----------------------------------------------------------------------------
(* Properties *)

\* What throttlePersist() can touch.
Store == <<lastPersist, pendingPersist, persistDue, clickerState>>

\* C1: score is never negative, whatever sequence of clicks, purchases
\* (skins included), bonus pickups, prestiges and ticks has run.
ScoreNeverNegative == state.score >= 0

\* A prestige and a skin purchase later, the score has been spent down to 0.
ScoreSpentToZero ==
    /\ state.score = 0
    /\ state.prestigeCount = 1
    /\ state.ownedSkins # {}

\* C2: a purchase attempted with score < cost changes no field of the
\* player state and schedules no save.
RejectedPurchaseChangesNothing ==
    [][ /\ (upgradeAuto /\ state.score < state.autoClickCost)
            => UNCHANGED <<state, Store>>
        /\ (upgradeMult /\ state.score < state.multiplierCost)
            => UNCHANGED <<state, Store>>
        /\ (upgradeCritChance /\ state.score < state.critChanceCost)
            => UNCHANGED <<state, Store>>
        /\ (upgradeCritPower /\ state.score < state.critPowerCost)
            => UNCHANGED <<state, Store>>
        /\ (upgradeTempBoost /\ state.score < state.tempBoostCost)
            => UNCHANGED <<state, Store>>
      ]_vars

\* After earlier purchases, the score is below every one of the five prices.
EveryPurchaseUnaffordable ==
    /\ state.autoClickers > 0
    /\ state.score > 0
    /\ state.score < state.autoClickCost
    /\ state.score < state.multiplierCost
    /\ state.score < state.critChanceCost
    /\ state.score < state.critPowerCost
    /\ state.score < state.tempBoostCost

\* floor(c * 1.5), written as c + floor(c / 2)
OneAndAHalf(c) == c + (c \div 2)

\* C3: a successful purchase takes exactly the price off the score; the
\* next price is floor(price * 1.5) for autoClick, floor(price * 2) for
\* multiplier, critChance and critPower, and the same price for tempBoost;
\* autoClick and multiplier each add 1 to their stat.
SuccessfulPurchaseEffect ==
    [][ /\ (upgradeAuto /\ state.score >= state.autoClickCost) =>
              /\ state'.score = state.score - state.autoClickCost
              /\ state'.autoClickers = state.autoClickers + 1
              /\ state'.autoClickCost = OneAndAHalf(state.autoClickCost)
        /\ (upgradeMult /\ state.score >= state.multiplierCost) =>
              /\ state'.score = state.score - state.multiplierCost
              /\ state'.multiplier = state.multiplier + 1
              /\ state'.multiplierCost = state.multiplierCost + state.multiplierCost
        /\ (upgradeCritChance /\ state.score >= state.critChanceCost) =>
              /\ state'.score = state.score - state.critChanceCost
              /\ state'.critChanceCost = state.critChanceCost + state.critChanceCost
        /\ (upgradeCritPower /\ state.score >= state.critPowerCost) =>
              /\ state'.score = state.score - state.critPowerCost
              /\ state'.critPowerCost = state.critPowerCost + state.critPowerCost
        /\ (upgradeTempBoost /\ state.score >= state.tempBoostCost) =>
              /\ state'.score = state.score - state.tempBoostCost
              /\ state'.tempBoostCost = state.tempBoostCost
      ]_vars

\* The example of the specification: 500 points buy the first auto-clicker.
FirstAutoClickerBought ==
    /\ state.score = 0
    /\ state.autoClickers = 1
    /\ state.autoClickCost = 750
    /\ state.prestigeCount = 0

\* C4: critChance never exceeds 0.5 and critPower never exceeds 50; a
\* purchase at critChance 0.49 yields exactly 0.50.
CritStatsCapped ==
    /\ [](state.critChance <= 50 /\ state.critPower <= 50)
    /\ [][ (upgradeCritChance /\ state.score >= state.critChanceCost
                               /\ state.critChance = 49)
            => state'.critChance = 50 ]_vars

\* A session resumed at critChance 0.49 has bought the last step, and
\* critPower stands at its cap.
CritChanceBoughtToCap ==
    /\ Len(clickerState) = 1
    /\ state.critChance = 50
    /\ state.critPower = 50
    /\ state.critChanceCost = 4000
    /\ Msg("crit", 50, 0) \in state.achievementsUnlocked

\* C5: a confirmed prestige with score >= prestige cost takes the cost off
\* the score, adds 1 to the count and 10 to the bonus, doubles the prestige
\* cost and resets totalClicks, autoClickers, multiplier, multiplierCost,
\* critChance, critPower, critChanceCost, critPowerCost and the boost flag
\* to their baselines, autoClickCost to the fixed value 50.
PrestigeEffect ==
    [][ (doPrestige(TRUE) /\ state.score >= state.prestigeCost) =>
          /\ state'.score = state.score - state.prestigeCost
          /\ state'.prestigeCount = state.prestigeCount + 1
          /\ state'.prestigeBonus = state.prestigeBonus + 10
          /\ state'.prestigeCost = state.prestigeCost + state.prestigeCost
          /\ state'.totalClicks = 0
          /\ state'.autoClickers = 0
          /\ state'.autoClickCost = 50
          /\ state'.multiplier = 1
          /\ state'.multiplierCost = 1000
          /\ state'.critChance = 10
          /\ state'.critPower = 10
          /\ state'.critChanceCost = 2000
          /\ state'.critPowerCost = 3000
          /\ state'.tempBoostActive = FALSE
      ]_vars

\* A prestige has just reset a session that had bought upgrades.
PrestigeDone ==
    /\ state.prestigeCount = 1
    /\ state.prestigeBonus = 10
    /\ state.prestigeCost = 40000
    /\ state.autoClickers = 0
    /\ state.autoClickCost = 50
    /\ state.score = 0

\* C6: a prestige attempt with score < prestige cost, or with the
\* confirmation declined, changes no field of the player state and
\* schedules no save.
RejectedPrestigeChangesNothing ==
    [][ /\ (doPrestige(TRUE) /\ state.score < state.prestigeCost)
            => UNCHANGED <<state, Store>>
        /\ doPrestige(FALSE) => UNCHANGED <<state, Store>>
      ]_vars

\* The 20500-point session has prestiged: 500 points are left against a
\* doubled cost of 40000, so a further attempt is rejected.
SecondPrestigeUnaffordable ==
    /\ state.prestigeCount = 1
    /\ state.prestigeCost = 40000
    /\ state.autoClickers = 0
    /\ state.autoClickCost = 50
    /\ state.score = 500

Floored(x, p) == x + ((x * p) \div 100)

\* C8: a click adds 1 to totalClicks and adds to score exactly
\* floor(multiplier * (boost ? 2 : 1) * (1 + bonus/100) * (crit ? critPower : 1));
\* it changes no upgrade, cost, prestige or daily field.
ClickEffect ==
    [][ \A isCrit \in BOOLEAN : Click(isCrit) =>
          /\ state'.totalClicks = state.totalClicks + 1
          /\ state'.score = state.score +
                Floored(state.multiplier
                          * (IF state.tempBoostActive THEN 2 ELSE 1)
                          * (IF isCrit THEN state.critPower ELSE 1),
                        state.prestigeBonus)
          /\ state'.autoClickers = state.autoClickers
          /\ state'.multiplier = state.multiplier
          /\ state'.critChance = state.critChance
          /\ state'.critPower = state.critPower
          /\ state'.tempBoostActive = state.tempBoostActive
          /\ state'.tempBoostEnd = state.tempBoostEnd
          /\ state'.autoClickCost = state.autoClickCost
          /\ state'.multiplierCost = state.multiplierCost
          /\ state'.critChanceCost = state.critChanceCost
          /\ state'.critPowerCost = state.critPowerCost
          /\ state'.tempBoostCost = state.tempBoostCost
          /\ state'.prestigeCount = state.prestigeCount
          /\ state'.prestigeBonus = state.prestigeBonus
          /\ state'.prestigeCost = state.prestigeCost
          /\ state'.daily = state.daily
      ]_vars

\* A critical click with the boost running and a prestige bonus of 10%:
\* floor(1 * 2 * 1.1 * 10) = 22 on top of the 200 left after the boost.
BoostedCritClickDone ==
    /\ state.totalClicks = 1
    /\ state.prestigeBonus = 10
    /\ state.tempBoostActive
    /\ state.multiplier = 1
    /\ state.autoClickers = 0
    /\ state.score = 222

\* C9: while timed mode is active, a click adds to timedScore the same
\* floored gain that it adds to score.
TimedClickAddsGain ==
    [][ \A isCrit \in BOOLEAN : (Click(isCrit) /\ state.timedActive) =>
          state'.timedScore - state.timedScore = state'.score - state.score
      ]_vars

\* C10: a 1 Hz economy tick with autoClickers > 0 adds exactly
\* floor(autoClickers * multiplier * (boost ? 2 : 1) * (1 + bonus/100)) to
\* score, and the same amount to timedScore iff timed mode is active; with
\* autoClickers = 0 it leaves both alone; it never changes totalClicks.
TickEffect ==
    [][ autoClickLoop =>
          LET gain == IF state.autoClickers > 0
                      THEN Floored(state.autoClickers * state.multiplier
                                     * (IF state.tempBoostActive THEN 2 ELSE 1),
                                   state.prestigeBonus)
                      ELSE 0
          IN /\ state'.score = state.score + gain
             /\ state'.timedScore = state.timedScore
                                      + (IF state.timedActive THEN gain ELSE 0)
             /\ state'.totalClicks = state.totalClicks
      ]_vars

\* The tick has run in timed mode with five auto-clickers, the boost and a
\* 10% prestige bonus: floor(5 * 1 * 2 * 1.1) = 11 to score and timedScore.
TimedBoostedTickDone ==
    /\ nextAutoTick > now
    /\ state.timedActive
    /\ state.autoClickers = 5
    /\ state.tempBoostActive
    /\ state.prestigeBonus = 10
    /\ state.totalClicks = 0
    /\ state.timedScore = 11
    /\ state.score = 111

\* The upgrade levels and prices of the player state.
Upgrades(st) ==
    <<st.autoClickers, st.autoClickCost, st.multiplier, st.multiplierCost,
      st.critChance, st.critPower, st.critChanceCost, st.critPowerCost,
      st.tempBoostCost, st.prestigeCount, st.prestigeBonus, st.prestigeCost>>

\* C11: a daily tick with the challenge active, unclaimed and
\* score >= target sets claimedToday, clears daily.active, sets
\* daily.expiresAt and tempBoostEnd to now + 600000 ms and tempBoostActive
\* to true; score and the upgrade fields are unchanged.
DailySuccessEffect ==
    [][ (dailyTick /\ state.daily.active /\ ~state.daily.claimedToday
                   /\ state.score >= state.daily.target) =>
          /\ state'.daily.claimedToday = TRUE
          /\ state'.daily.active = FALSE
          /\ state'.daily.expiresAt = now + 600000
          /\ state'.tempBoostActive = TRUE
          /\ state'.tempBoostEnd = now + 600000
          /\ state'.score = state.score
          /\ state'.totalClicks = state.totalClicks
          /\ Upgrades(state') = Upgrades(state)
      ]_vars

\* The challenge has just been claimed by a tick, after an upgrade purchase.
DailyClaimed ==
    /\ nextDailyTick > now
    /\ state.daily.claimedToday
    /\ ~state.daily.active
    /\ state.daily.expiresAt = now + 600000
    /\ state.tempBoostActive
    /\ state.tempBoostEnd = now + 600000
    /\ state.autoClickers = 1
    /\ state.score = 20000

----------------------------------------------------------------------------
(* The reward window of the daily challenge, with the clock running *)

\* The snapshot of a session that started the daily challenge a tick ago
\* and holds just over the default target.
RewardSession ==
    [FirstVisit EXCEPT
       !.score = 5300,
       !.achievementsUnlocked = {Msg("dailyStart", 0, 0)},
       !.daily = [active |-> TRUE, target |-> 5000, rewardPct |-> 5,
                  expiresAt |-> StartTime - TickMs + DailyMs,
                  claimedToday |-> FALSE]]

InitReward ==
    /\ clickerState = <<Snapshot(RewardSession)>>
    /\ state = pageLoad(clickerState)
    /\ today = 1
    /\ dailyKey = today
    /\ dailyStarted = today
    /\ now = StartTime
    /\ lastPersist = 0
    /\ pendingPersist = FALSE
    /\ persistDue = 0
    /\ nextAutoTick = StartTime
    /\ nextDailyTick = StartTime
    /\ timedIntervals = <<>>
    /\ scores = <<>>
    /\ importToast = ""
    /\ backups = {}
    /\ announced = [t \in state.achievementsUnlocked |-> 1]

NextReward ==
    \/ dailyTick
    \/ autoClickLoop
    \/ upgradeTempBoost
    \/ trailingPersist
    \/ Advance

SpecReward == InitReward /\ [][NextReward]_vars

\* C12: after a daily-challenge success at time t the boost stays active
\* until t + 600000 ms (daily.expiresAt), whatever clicks, purchases and
\* ticks follow.
RewardWindowKept ==
    (state.daily.claimedToday /\ now < state.daily.expiresAt)
        => state.tempBoostActive

----------------------------------------------------------------------------
(* Starting the daily challenge *)

\* el.startDailyBtn click handler of the earlier copy of the script
\* (unnamed/part_000): ensureDaily(true), then activate.
startDailyEarlier(target, rewardPct) ==
    /\ LET e == ensureDaily(World, TRUE, target, rewardPct)
           w2 == [e.w EXCEPT
                    !.state.daily.active = TRUE,
                    !.state.daily.expiresAt = now + DailyMs]
           w3 == unlockAchievement(w2, Msg("dailyStart", 0, 0))
       IN /\ Commit(throttlePersist(w3))
          /\ dailyKey' = e.key
    /\ UNCHANGED <<now, nextAutoTick, nextDailyTick, timedIntervals,
                   dailyStarted, today, scores, importToast,
                   backups>>

\* The daily challenge under the handler of docs/script.js.
NextDaily ==
    \/ \E t \in DailyTargets, r \in DailyRewards : startDaily(t, r)
    \/ \E bonus \in BonusValues : bonusButton(bonus)
    \/ upgradeTempBoost
    \/ autoClickLoop
    \/ dailyTick

SpecDaily == Init /\ [][NextDaily]_vars

\* The daily challenge under the handler of the earlier copy.
NextDailyEarlier ==
    \/ \E t \in DailyTargets, r \in DailyRewards : startDailyEarlier(t, r)
    \/ \E bonus \in BonusValues : bonusButton(bonus)
    \/ upgradeTempBoost
    \/ autoClickLoop
    \/ dailyTick

\* The earlier copy never writes localStorage["dailyStarted"].
InitDailyEarlier ==
    /\ Init
    /\ clickerState = <<>>

SpecDailyEarlier == InitDailyEarlier /\ [][NextDailyEarlier]_vars

\* C13: a start of the daily challenge is rejected, leaving the daily
\* record unchanged, when a challenge was already started today, is active
\* or was claimed today; otherwise it activates the challenge with
\* expiresAt = now + 10 min.
StartDailyGuarded ==
    [][ \A t \in DailyTargets, r \in DailyRewards :
          (startDaily(t, r) \/ startDailyEarlier(t, r)) =>
             IF \/ dailyStarted = today
                \/ state.daily.active
                \/ state.daily.claimedToday
             THEN state'.daily = state.daily
             ELSE /\ state'.daily.active
                  /\ state'.daily.expiresAt = now + 600000
      ]_vars

----------------------------------------------------------------------------
(* Timed mode with the clock running *)

NextCountdown ==
    \/ startTimed
    \/ \E i \in 1..Len(timedIntervals) : timedCountdown(i)
    \/ \E isCrit \in BOOLEAN : Click(isCrit)
    \/ autoClickLoop
    \/ dailyTick
    \/ trailingPersist
    \/ Advance

\* A first visit, or the snapshot of a session whose best timed run scored 3.
InitCountdown ==
    /\ \E best \in {0, 3} :
          clickerState = IF best = 0 THEN <<>>
                         ELSE <<Snapshot([FirstVisit   EXCEPT
                                            !.bestTimed = best,
                                            !.achievementsUnlocked =
                                                {Msg("timedStart", 0, 0),
                                                 Msg("timedEnd", best, best)}])>>
    /\ state = pageLoad(clickerState)
    /\ today = 1
    /\ dailyKey = (IF clickerState = <<>> THEN 0 ELSE today)
    /\ dailyStarted = 0
    /\ now = StartTime
    /\ lastPersist = 0
    /\ pendingPersist = FALSE
    /\ persistDue = 0
    /\ nextAutoTick = StartTime
    /\ nextDailyTick = StartTime
    /\ timedIntervals = <<>>
    /\ scores = <<>>
    /\ importToast = ""
    /\ backups = {}
    /\ announced = [t \in state.achievementsUnlocked |-> 1]

SpecCountdown == InitCountdown /\ [][NextCountdown]_vars

\* C14: a start of timed mode while it is active changes nothing and
\* starts no second countdown; a start while inactive sets timeLeft = 60,
\* timedScore = 0, active = true, leaves bestTimed alone and starts one
\* countdown.
StartTimedEffect ==
    [][ startTimed =>
          IF state.timedActive
          THEN UNCHANGED <<state, timedIntervals>>
          ELSE /\ state'.timedActive
               /\ state'.timedTimeLeft = 60
               /\ state'.timedScore = 0
               /\ state'.bestTimed = state.bestTimed
               /\ Len(timedIntervals') = Len(timedIntervals) + 1
      ]_vars

\* A second run has been started after a first one that scored.
SecondRunStarted ==
    /\ state.timedActive
    /\ state.timedTimeLeft = 60
    /\ state.timedScore = 0
    /\ state.bestTimed = 3
    /\ Msg("timedEnd", 1, 3) \in state.achievementsUnlocked
    /\ Len(timedIntervals) = 1

\* C15: each countdown tick takes 1 off timeLeft; the run stays active
\* while timeLeft is positive and ends at the tick that brings it to 0
\* (the 60th), where bestTimed becomes max(bestTimed, timedScore); no other
\* step but a start writes timeLeft or active, and bestTimed never
\* decreases.
CountdownEffect ==
    [][ /\ \A i \in 1..Len(timedIntervals) : timedCountdown(i) =>
              /\ state.timedActive
              /\ state'.timedTimeLeft = state.timedTimeLeft - 1
              /\ state'.timedActive = (state.timedTimeLeft > 1)
              /\ state'.bestTimed =
                    IF state.timedTimeLeft > 1 THEN state.bestTimed
                    ELSE IF state.timedScore > state.bestTimed
                         THEN state.timedScore ELSE state.bestTimed
        /\ (state'.timedTimeLeft # state.timedTimeLeft
              \/ state'.timedActive # state.timedActive) =>
              \/ startTimed
              \/ \E i \in 1..Len(timedIntervals) : timedCountdown(i)
        /\ state'.bestTimed >= state.bestTimed
        /\ state.timedActive =>
              /\ Len(timedIntervals) = 1
              /\ state.timedTimeLeft \in 1..60
      ]_vars

\* The 60th tick, 60 seconds after the start, has ended a run that scored
\* less than the best of an earlier session.
RunEnded ==
    /\ ~state.timedActive
    /\ state.timedTimeLeft = 0
    /\ state.timedScore = 1
    /\ state.bestTimed = 3
    /\ timedIntervals = <<>>
    /\ now = StartTime + 60000

----------------------------------------------------------------------------
(* Leaderboard, manual save and page reload *)

\* scores.push(entry); scores.sort((a,b) => b.score - a.score); slice(0,10)
saveScore(sc, score) ==
    LET k == Cardinality({i \in 1..Len(sc) : sc[i] >= score})
        all == SubSeq(sc, 1, k) \o <<score>> \o SubSeq(sc, k + 1, Len(sc))
    IN SubSeq(all, 1, Min(LeaderboardSize, Len(all)))

\* el.saveNowBtn click handler
saveNow ==
    /\ Len(scores) < MaxSaves
    /\ scores' = saveScore(scores, state.score)
    /\ Commit(unlockAchievement(World, Msg("saved", 0, 0)))
    /\ UNCHANGED <<now, nextAutoTick, nextDailyTick, timedIntervals,
                   dailyKey, dailyStarted, today, importToast, backups>>

\* el.backBtn click handler: location.reload().  The script runs again from
\* the top: default state, loadPersisted(), fresh timers and throttle; the
\* pending trailing save of the page that is left never runs.
backBtn ==
    /\ state' = pageLoad(clickerState)
    /\ lastPersist' = 0
    /\ pendingPersist' = FALSE
    /\ persistDue' = 0
    /\ timedIntervals' = <<>>
    /\ nextAutoTick' = now + TickMs
    /\ nextDailyTick' = now + TickMs
    /\ importToast' = ""
    /\ UNCHANGED <<now, clickerState, dailyKey, dailyStarted, today, scores,
                   backups, announced>>

\* Achievements fired by the manual save, the timed-mode start and the
\* prestige, with page reloads in between, in one reading of the clock.
NextAchieve ==
    \/ saveNow
    \/ startTimed
    \/ \E confirmed \in BOOLEAN : doPrestige(confirmed)
    \/ backBtn

SpecAchieve == Init /\ [][NextAchieve]_vars

\* C16: every achievement text is announced (list item, toast, sound) at
\* most once over any sequence of operations, prestige resets and page
\* reloads included.
AnnouncedAtMostOnce ==
    \A t \in DOMAIN announced : announced[t] <= 1

----------------------------------------------------------------------------
(* Sound settings *)

\* el.soundToggle change handler
soundToggle(checked) ==
    /\ Commit(throttlePersist([World EXCEPT !.state.soundOn = checked]))
    /\ UNCHANGED <<now, Timers>>

\* input handler of the per-type volume slider; t is the selected type and
\* level the slider value
soundVolumeInput(t, level) ==
    /\ Commit(throttlePersist(
                [World EXCEPT
                   !.state.volumes = AssignVolumes(@, t :> level),
                   !.state.soundType = t,
                   !.state.soundVolumes = AssignVolumes(@, t :> level)]))
    /\ UNCHANGED <<now, Timers>>

\* The throttled save called at arbitrary times: a setting is toggled at any
\* reading of the clock, between the 1 Hz callbacks and the trailing save.
NextThrottle ==
    \/ \E checked \in BOOLEAN : soundToggle(checked)
    \/ autoClickLoop
    \/ dailyTick
    \/ trailingPersist
    \/ Advance

\* a first visit
InitThrottle ==
    /\ Init
    /\ clickerState = <<>>

SpecThrottle == InitThrottle /\ [][NextThrottle]_vars

\* C17: any two physical writes of the store are at least 1000 ms apart.
\* Every write goes through throttlePersist, and both the leading and the
\* trailing write set __lastPersist to the time of the write, so at each
\* write __lastPersist is the time of the write before.
WritesSpacedOut ==
    [][(trailingPersist \/ lastPersist' # lastPersist)
          => now - lastPersist >= PERSIST_THROTTLE_MS]_vars

----------------------------------------------------------------------------
(* Save and load *)

\* the sliders moved and the values they are moved to
SliderTypes == {"music", "crit"}
VolumeLevels == {0, 40}

\* Settings and purchases made within one reading of the clock, each first
\* one after a page load being written at once, and page reloads.
NextSettings ==
    \/ \E t \in SliderTypes, level \in VolumeLevels :
          soundVolumeInput(t, level)
    \/ \E i \in 1..Len(SKINS) : buySkin(i)
    \/ backBtn

SpecSettings == Init /\ [][NextSettings]_vars

\* C18: when the store holds what persist() writes for the current state, a
\* load into the fresh default state of a new page reproduces every
\* allow-listed field, the `volumes` map included, whether or not the call
\* of setTheme inside loadPersisted() completes.
SaveLoadRoundTrip ==
    [][(backBtn /\ clickerState = <<Snapshot(state)>>)
          => /\ \A f \in AllowListed : state'[f] = state[f]
             /\ \A f \in AllowListed :
                   loadPersisted(DefaultState, clickerState)[f] = state[f]
             /\ \A f \in AllowListed :
                   initVolumeControls(
                     loadPersistedThemeless(DefaultState, clickerState))[f]
                       = state[f]
      ]_vars

\* A page reloaded after the purchase of a skin and a muted music channel,
\* each saved: all of it is back.
SettingsReloaded ==
    /\ lastPersist = 0
    /\ clickerState = <<Snapshot(state)>>
    /\ state.currentSkin = "gif2"
    /\ state.ownedSkins = {"gif2"}
    /\ state.volumes.music = 0
    /\ state.soundVolumes.music = 0
    /\ state.soundType = "music"

----------------------------------------------------------------------------
(* Export and import *)

\* the keys the export leaves out and the import skips
AudioKeys == {"soundVolumes", "soundType", "musicOn", "soundOn", "volumes"}

\* exportState: JSON.parse(JSON.stringify(state)) without the audio keys
exportState(st) ==
    [f \in {g \in DOMAIN st \ AudioKeys : ~Undefined(g, st[g])} |-> st[f]]

\* A text that does not parse: the text of a snapshot with more after it.
Malformed(st) == <<Snapshot(st), Snapshot(st)>>

\* The files offered to the import: a truncated export (it does not parse),
\* an export { exportedAt, state, scores }, two flat files of the older
\* format, the second a copy of the stored snapshot with its audio keys, and
\* an export whose score list was edited by hand.
ImportPayloads ==
    { [parses |-> FALSE, wrapped |-> TRUE,
       state |-> exportState(SavedSession),
       hasScores |-> TRUE, scores |-> <<20500>>],
      [parses |-> TRUE, wrapped |-> TRUE,
       state |-> exportState(VeteranSession),
       hasScores |-> TRUE, scores |-> <<400>>],
      [parses |-> TRUE, wrapped |-> FALSE,
       state |-> exportState(SavedSession),
       hasScores |-> FALSE, scores |-> <<>>],
      [parses |-> TRUE, wrapped |-> FALSE,
       state |-> Snapshot([VeteranSession EXCEPT !.soundOn = FALSE]),
       hasScores |-> FALSE, scores |-> <<>>],
      [parses |-> TRUE, wrapped |-> TRUE,
       state |-> exportState(FirstVisit),
       hasScores |-> TRUE, scores |-> <<100, 400>>] }

\* a parser that recovers what it can read of a damaged file
importParseLenient(p) == TRUE

\* JSON.parse(e.target.result) returns
importParse(p) == p.parses

\* for (k of Object.keys(incomingState)) if (!skip.has(k)) state[k] = ...
importMerge(st, incoming) ==
    [f \in DOMAIN st |->
        IF f \in DOMAIN incoming \ AudioKeys THEN incoming[f] ELSE st[f]]

\* reader.onload of the el.importFile change handler
importFile(p) ==
    /\ IF ~importParse(p)
       THEN /\ Commit(World)
            /\ UNCHANGED scores
            /\ importToast' = "Invalid import file"
       ELSE /\ LET w1 == [World EXCEPT !.state = importMerge(state, p.state)]
                   w2 == throttlePersist(w1)
               IN Commit([w2 EXCEPT !.state =
                             loadPersisted(w2.state, w2.clickerState)])
            /\ scores' = (IF p.hasScores THEN p.scores ELSE scores)
            /\ importToast' = "Import successful"
    /\ UNCHANGED <<now, nextAutoTick, nextDailyTick, timedIntervals,
                   dailyKey, dailyStarted, today, backups>>

\* the handler of the earlier copy: Object.assign(state, parsed).  The keys
\* of an export (exportedAt, state, scores) land beside the game fields; a
\* flat file is merged whole; the leaderboard is never replaced.
importFileEarlier(p) ==
    /\ IF ~importParse(p)
       THEN /\ Commit(World)
            /\ importToast' = "Invalid import file"
       ELSE /\ LET merged == IF p.wrapped THEN state
                             ELSE [f \in DOMAIN state |->
                                     IF f \in DOMAIN p.state \ {"volumes"}
                                     THEN p.state[f] ELSE state[f]]
                   w2 == throttlePersist([World EXCEPT !.state = merged])
               IN Commit([w2 EXCEPT !.state =
                             loadPersisted(w2.state, w2.clickerState)])
            /\ importToast' = "Import successful"
    /\ UNCHANGED <<now, nextAutoTick, nextDailyTick, timedIntervals,
                   dailyKey, dailyStarted, today, scores, backups>>

\* A page showing one of the sessions, a leaderboard of one entry, and a
\* store that holds the session, or that was emptied or damaged from outside
\* the page since the load; the last save was made long ago or just now.
InitImport ==
    /\ \E st \in {FirstVisit, SavedSession, VeteranSession} :
          /\ state = st
          /\ clickerState \in {<<Snapshot(st)>>, <<>>, Malformed(st)}
    /\ lastPersist \in {0, StartTime}
    /\ today = 1
    /\ dailyKey = today
    /\ dailyStarted = (IF state.daily.active THEN today ELSE 0)
    /\ now = StartTime
    /\ pendingPersist = FALSE
    /\ persistDue = 0
    /\ nextAutoTick = StartTime
    /\ nextDailyTick = StartTime
    /\ timedIntervals = <<>>
    /\ scores = <<100>>
    /\ importToast = ""
    /\ backups = {}
    /\ announced = [t \in state.achievementsUnlocked |-> 1]

\* The import handlers of both copies of the script and the page reload:
\* every behaviour of either copy is a behaviour of this specification.
NextImport ==
    \/ \E p \in ImportPayloads : importFile(p)
    \/ \E p \in ImportPayloads : importFileEarlier(p)
    \/ backBtn

SpecImport == InitImport /\ [][NextImport]_vars

\* the canonical key is missing or its text does not parse
BadStore(stored) == stored = <<>> \/ Len(stored) # 1

\* C19: loadPersisted() on a missing key or on a text that does not parse
\* leaves the in-memory state as it was and throws nothing: on a page load
\* the defaults stand, and inside an import the merged state stands and the
\* handler goes on to its success notification.
LoadOfBadStoreKeepsState ==
    /\ [](BadStore(clickerState)
            => loadPersisted(state, clickerState) = state)
    /\ [][(backBtn /\ BadStore(clickerState)) => state' = FirstVisit]_vars
    /\ [][\A p \in ImportPayloads :
            (importFile(p) /\ importParse(p) /\ BadStore(clickerState'))
               => /\ state' = importMerge(state, p.state)
                  /\ importToast' = "Import successful"]_vars

\* An export was imported over the saved session while the store was
\* damaged and the save deferred: the load inside the import changed nothing.
ImportedOverDamagedStore ==
    /\ importToast = "Import successful"
    /\ clickerState = Malformed(SavedSession)
    /\ pendingPersist
    /\ state.score = 400
    /\ state.prestigeCount = 1
    /\ scores = <<400>>

\* C20: an import file that does not parse changes nothing: the state, the
\* leaderboard and the store with its throttle are as before, and the only
\* effect is the error notification.
MalformedImportChangesNothing ==
    [][\A p \in ImportPayloads :
          ((importFile(p) \/ importFileEarlier(p)) /\ ~p.parses)
             => /\ UNCHANGED <<state, scores, Store, announced>>
                /\ importToast' = "Invalid import file"]_vars

\* A truncated export was refused after an earlier import had replaced the
\* leaderboard.
MalformedImportRefused ==
    /\ importToast = "Invalid import file"
    /\ scores = <<400>>
    /\ state.prestigeCount = 1

\* C21: after a successful import every imported field that is not an audio
\* key holds the imported value in memory when the handler returns.
ImportedFieldsStand ==
    [][\A p \in ImportPayloads :
          (importFile(p) /\ p.parses)
             => \A f \in (DOMAIN p.state \cap DOMAIN state) \ AudioKeys :
                   state'[f] = p.state[f]]_vars

\* Imports on a page whose sound settings are being changed.
NextImportSound ==
    \/ \E checked \in BOOLEAN : soundToggle(checked)
    \/ \E t \in SliderTypes, level \in VolumeLevels :
          soundVolumeInput(t, level)
    \/ \E p \in ImportPayloads : importFile(p)

SpecImportSound == InitImport /\ [][NextImportSound]_vars

\* C22: a successful import leaves the audio keys of the state as they were
\* in memory right before it.
ImportKeepsAudio ==
    [][\A p \in ImportPayloads :
          (importFile(p) /\ p.parses)
             => \A f \in AudioKeys : state'[f] = state[f]]_vars

----------------------------------------------------------------------------
(* Reset *)

\* JSON.stringify(state)
stringifyState(st) ==
    [f \in {g \in DOMAIN st \ {"volumes"} : ~Undefined(g, st[g])} |-> st[f]]

\* el.resetScoresBtn click handler; confirmed is the answer to confirm().
\* A backup is written under a key made of the time (a second backup in the
\* same millisecond replaces the first), the keys clickerState, scores and
\* dailyKey are removed and the page is reloaded.
resetScoresBtn(confirmed) ==
    IF ~confirmed
    THEN UNCHANGED vars
    ELSE /\ backups' = {b \in backups : b.at # now} \cup
                { [at |-> now,
                   text |-> IF clickerState # <<>> THEN clickerState
                            ELSE <<stringifyState(state)>>] }
         /\ clickerState' = <<>>
         /\ scores' = <<>>
         /\ dailyKey' = 0
         /\ state' = pageLoad(<<>>)
         /\ lastPersist' = 0
         /\ pendingPersist' = FALSE
         /\ persistDue' = 0
         /\ timedIntervals' = <<>>
         /\ nextAutoTick' = now + TickMs
         /\ nextDailyTick' = now + TickMs
         /\ importToast' = ""
         /\ announced' = [t \in {} |-> 1]
         /\ UNCHANGED <<now, dailyStarted, today>>

\* Everything that can reach the leaderboard: manual save, import, reset,
\* page reload and the 1 Hz callbacks, in one reading of the clock.
NextLeaderboard ==
    \/ saveNow
    \/ \E p \in ImportPayloads : importFile(p)
    \/ \E confirmed \in BOOLEAN : resetScoresBtn(confirmed)
    \/ backBtn
    \/ autoClickLoop
    \/ dailyTick

\* a first visit just saved, with a leaderboard of one entry
InitLeaderboard ==
    /\ InitImport
    /\ state = FirstVisit
    /\ clickerState = <<Snapshot(state)>>
    /\ lastPersist = 0

SpecLeaderboard == InitLeaderboard /\ [][NextLeaderboard]_vars

\* C23: the leaderboard holds at most 10 scores, in non-increasing order.
LeaderboardShape ==
    /\ Len(scores) <= LeaderboardSize
    /\ \A i \in 1..(Len(scores) - 1) : scores[i] >= scores[i + 1]

\* C24: no 1 Hz callback, page load or import changes the leaderboard; only
\* the manual save writes it.
LeaderboardOnlyManual ==
    [][(\/ autoClickLoop
        \/ dailyTick
        \/ backBtn
        \/ \E p \in ImportPayloads : importFile(p))
          => scores' = scores]_vars

\* The daily challenge, the manual save and the reset in one reading of the
\* clock.
NextReset ==
    \/ \E t \in DailyTargets, r \in DailyRewards : startDaily(t, r)
    \/ autoClickLoop
    \/ dailyTick
    \/ saveNow
    \/ \E confirmed \in BOOLEAN : resetScoresBtn(confirmed)

SpecReset == Init /\ [][NextReset]_vars

\* C25: a confirmed reset leaves none of the keys the game writes (state
\* snapshot, leaderboard, daily day key, daily-started marker) and the page
\* starts again from the defaults.
ResetWipesEveryKey ==
    [][resetScoresBtn(TRUE)
          => /\ clickerState' = <<>>
             /\ scores' = <<>>
             /\ dailyKey' = 0
             /\ dailyStarted' = 0
             /\ state' = FirstVisit]_vars

----------------------------------------------------------------------------
(* The order of the 1 Hz callbacks *)

\* The three callbacks are three setInterval timers: the auto loop and the
\* daily tick are created at page load, the countdown at the click on the
\* start button, one second before its first run.  A click handled before
\* the auto loop of the current second creates a countdown that is due
\* before the auto loop in every later second.
startTimedEarly == startTimed /\ nextAutoTick <= now

NextPhase ==
    \/ startTimedEarly
    \/ \E i \in 1..Len(timedIntervals) : timedCountdown(i)
    \/ autoClickLoop
    \/ dailyTick
    \/ trailingPersist
    \/ Advance

SpecPhase == InitCountdown /\ [][NextPhase]_vars

\* C26: within one second the boost-expiry evaluation (auto loop) runs
\* first, the daily-challenge evaluation second and the timed countdown
\* last: the daily tick never runs while the auto loop is due, and the
\* countdown never runs while either of the two is due.
TickOrder ==
    [][ /\ dailyTick => nextAutoTick > now
        /\ \A i \in 1..Len(timedIntervals) :
              timedCountdown(i) => (nextAutoTick > now /\ nextDailyTick > now)
      ]_vars

----------------------------------------------------------------------------
(* Saving after a change *)

\* C27: every step that changes an allow-listed field of the state
\* triggers the throttled save: after the step the store holds the new
\* snapshot or a trailing write is pending, so that the store catches up
\* with the state once the operations stop.
ChangeTriggersSave ==
    [][Snapshot(state') # Snapshot(state)
          => (pendingPersist' \/ clickerState' = <<Snapshot(state')>>)]_vars

----------------------------------------------------------------------------
(* The temporary boost *)

\* C28: a successful purchase of the temporary boost sets tempBoostActive,
\* sets tempBoostEnd to now + 30000 ms and leaves tempBoostCost unchanged,
\* also when a boost with a later end (a daily reward) is running: the end
\* then moves earlier.
BoostPurchaseEffect ==
    [][(upgradeTempBoost /\ state.score >= state.tempBoostCost)
          => /\ state'.tempBoostActive
             /\ state'.tempBoostEnd = now + 30000
             /\ state'.tempBoostCost = state.tempBoostCost
             /\ state'.score = state.score - state.tempBoostCost]_vars

\* A boost has been bought while the daily reward was running: the end of
\* the boost is 30 s ahead and lies before the end of the reward.
BoostBoughtDuringReward ==
    /\ state.daily.claimedToday
    /\ state.tempBoostActive
    /\ state.tempBoostEnd = now + BoostMs
    /\ state.tempBoostEnd < state.daily.expiresAt

\* The snapshot of a session saved while a bought boost was running: one
\* auto-clicker, 20500 points, the boost ending two seconds after the load.
BoostSession ==
    [FirstVisit EXCEPT
       !.score = 20500,
       !.autoClickers = 1,
       !.autoClickCost = 75,
       !.tempBoostActive = TRUE,
       !.tempBoostEnd = StartTime + 2 * TickMs]

InitBoost ==
    /\ clickerState = <<Snapshot(BoostSession)>>
    /\ state = pageLoad(clickerState)
    /\ today = 1
    /\ dailyKey = today
    /\ dailyStarted = 0
    /\ now = StartTime
    /\ lastPersist = 0
    /\ pendingPersist = FALSE
    /\ persistDue = 0
    /\ nextAutoTick = StartTime
    /\ nextDailyTick = StartTime
    /\ timedIntervals = <<>>
    /\ scores = <<>>
    /\ importToast = ""
    /\ backups = {}
    /\ announced = [t \in state.achievementsUnlocked |-> 1]

\* The player acts during the first two seconds after the load, while the
\* boost is running; the callbacks run on.
PlayerActs == now <= StartTime + TickMs

NextBoost ==
    \/ PlayerActs /\ \E confirmed \in BOOLEAN : doPrestige(confirmed)
    \/ PlayerActs /\ \E p \in ImportPayloads : importFile(p)
    \/ autoClickLoop
    \/ dailyTick
    \/ trailingPersist
    \/ Advance

SpecBoost == InitBoost /\ [][NextBoost]_vars

PlayerClicks ==
    /\ now > BoostSession.tempBoostEnd
    /\ now <= StartTime + 3 * TickMs

NextExpiry ==
    \/ PlayerClicks /\ \E isCrit \in BOOLEAN : Click(isCrit)
    \/ autoClickLoop
    \/ dailyTick
    \/ Advance

SpecExpiry == InitBoost /\ [][NextExpiry]_vars

\* C30: the auto loop computes the passive gain from the boost flag before
\* it evaluates the expiry, so the run that ends the boost still adds the
\* doubled passive gain, and a click made after tempBoostEnd and before
\* that run is still doubled.
BoostLastsUntilTick ==
    [][ /\ (autoClickLoop /\ state.tempBoostActive
                          /\ now > state.tempBoostEnd
                          /\ state.autoClickers > 0)
              => /\ state'.score = state.score
                       + (2 * state.autoClickers * state.multiplier
                            * (100 + state.prestigeBonus)) \div 100
                 /\ ~state'.tempBoostActive
        /\ \A isCrit \in BOOLEAN :
              (Click(isCrit) /\ state.tempBoostActive
                             /\ now > state.tempBoostEnd)
                 => state'.score = state.score
                       + (2 * state.multiplier * (100 + state.prestigeBonus)
                            * (IF isCrit THEN state.critPower ELSE 1))
                         \div 100
      ]_vars

\* A click has been made after the end time of the boost and before the
\* run of the auto loop that ends it: the flag is still on, the auto loop
\* is due, and the click has added twice the multiplier or twice the
\* critical gain to the score left by the earlier runs of the auto loop.
ClickedAfterEndBeforeTick ==
    /\ state.tempBoostActive
    /\ now > state.tempBoostEnd
    /\ nextAutoTick <= now
    /\ state.totalClicks = 1
    /\ \E k \in 1..4 : state.score \in {BoostSession.score + 2 * k + 2,
                                       BoostSession.score + 2 * k + 20}

----------------------------------------------------------------------------
(* The daily challenge after its time has run out *)

\* The snapshots of two sessions reloaded after the ten minutes of a started
\* challenge have passed without a tick having ended it: one below the
\* target, one above.
ExpiredSessions ==
    { [FirstVisit EXCEPT
         !.score = sc,
         !.achievementsUnlocked = {Msg("dailyStart", 0, 0)},
         !.daily = [active |-> TRUE, target |-> 5000, rewardPct |-> 5,
                    expiresAt |-> StartTime - TickMs,
                    claimedToday |-> FALSE]] : sc \in {300, 5300} }

InitExpired ==
    /\ \E st \in ExpiredSessions : clickerState = <<Snapshot(st)>>
    /\ state = pageLoad(clickerState)
    /\ today = 1
    /\ dailyKey = today
    /\ dailyStarted = today
    /\ now = StartTime
    /\ lastPersist = 0
    /\ pendingPersist = FALSE
    /\ persistDue = 0
    /\ nextAutoTick = StartTime
    /\ nextDailyTick = StartTime
    /\ timedIntervals = <<>>
    /\ scores = <<>>
    /\ importToast = ""
    /\ backups = {}
    /\ announced = [t \in state.achievementsUnlocked |-> 1]

NextExpired ==
    \/ \E isCrit \in BOOLEAN : Click(isCrit)
    \/ \E bonus \in BonusValues : bonusButton(bonus)
    \/ upgradeAuto
    \/ upgradeTempBoost
    \/ autoClickLoop
    \/ dailyTick

SpecExpired == InitExpired /\ [][NextExpired]_vars

\* C31: a daily tick with the challenge inactive changes nothing; with the
\* challenge active and unclaimed it succeeds when score >= target, also
\* after daily.expiresAt; otherwise, after daily.expiresAt, it deactivates
\* the challenge, leaves claimedToday false and leaves the boost alone.
DailyTickBranches ==
    [][dailyTick =>
         IF ~state.daily.active
         THEN state' = state /\ clickerState' = clickerState
         ELSE IF state.daily.claimedToday
         THEN TRUE
         ELSE IF state.score >= state.daily.target
         THEN /\ state'.daily.claimedToday
              /\ ~state'.daily.active
              /\ state'.tempBoostActive
         ELSE IF now > state.daily.expiresAt
         THEN /\ ~state'.daily.active
              /\ ~state'.daily.claimedToday
              /\ state'.tempBoostActive = state.tempBoostActive
              /\ state'.tempBoostEnd = state.tempBoostEnd
         ELSE state'.daily = state.daily
      ]_vars

\* The challenge of the richer session has been won at a tick after its
\* time had run out.
WonAfterTimeRanOut ==
    /\ state.daily.claimedToday
    /\ ~state.daily.active
    /\ state.daily.target = 5000
    /\ Msg("dailyDone", 5, 0) \in state.achievementsUnlocked

----------------------------------------------------------------------------
(* Ending a run or a challenge *)

\* The start buttons, a purchase, the prestige and the import in one
\* reading of the clock.
NextCancel ==
    \/ Len(timedIntervals) < MaxCountdowns /\ startTimed
    \/ \E t \in DailyTargets, r \in DailyRewards : startDaily(t, r)
    \/ upgradeAuto
    \/ \E confirmed \in BOOLEAN : doPrestige(confirmed)
    \/ \E p \in ImportPayloads : importFile(p)
    \/ autoClickLoop
    \/ dailyTick

\* A first visit, or the session whose daily challenge is running.
InitCancel == Init /\ clickerState \in {<<>>, <<Snapshot(SavedSession)>>}

SpecCancel == InitCancel /\ [][NextCancel]_vars

\* C32: timedActive goes from true to false only in the countdown callback
\* and daily.active goes from true to false only in the daily tick; no
\* start button, purchase, prestige or import ends either.
NoCancelPath ==
    [][ /\ (state.timedActive /\ ~state'.timedActive)
              => \E i \in 1..Len(timedIntervals) : timedCountdown(i)
        /\ (state.daily.active /\ ~state'.daily.active) => dailyTick
      ]_vars

----------------------------------------------------------------------------
(* The achievement of a critical-chance purchase *)

\* The snapshots of three sessions: one that never bought critical chance
\* and can afford a prestige;
\* one that prestiged, bought it once (11%), prestiged again and has 2500
\* points; one at the cap whose 50% achievement is recorded.  The prices
\* are the baseline prices.
CritLogSessions ==
    { [FirstVisit EXCEPT !.score = 26000],
      [FirstVisit EXCEPT
         !.score = 2500,
         !.critChance = 10,
         !.critPower = 10,
         !.prestigeCount = 2,
         !.prestigeBonus = 20,
         !.prestigeCost = 80000,
         !.achievementsUnlocked = {Msg("crit", 11, 0), Msg("prestige", 1, 0),
                                   Msg("prestige", 2, 0)}],
      [FirstVisit EXCEPT
         !.score = 6000,
         !.critChance = CritChanceCap,
         !.achievementsUnlocked = {Msg("crit", CritChanceCap, 0)}] }

InitCritLog ==
    /\ \E st \in CritLogSessions : clickerState = <<Snapshot(st)>>
    /\ state = pageLoad(clickerState)
    /\ today = 1
    /\ dailyKey = 0
    /\ dailyStarted = 0
    /\ now = StartTime
    /\ lastPersist = 0
    /\ pendingPersist = FALSE
    /\ persistDue = 0
    /\ nextAutoTick = StartTime
    /\ nextDailyTick = StartTime
    /\ timedIntervals = <<>>
    /\ scores = <<>>
    /\ importToast = ""
    /\ backups = {}
    /\ announced = [t \in state.achievementsUnlocked |-> 1]

SpecCritLog == InitCritLog /\ [][NextCrit]_vars

\* C33 as stated: every successful purchase of critical chance adds a key
\* to achievementsUnlocked that was not there before.
CritPurchaseAddsKey ==
    [][(upgradeCritChance /\ state.score >= state.critChanceCost)
          => state'.achievementsUnlocked \ state.achievementsUnlocked # {}
      ]_vars

\* C33, amended: a successful purchase of critical chance records the key
\* of the new percentage, min(50, critChance + 1); the key is new only if
\* that percentage was never reached before.
CritPurchaseRecordsPercentage ==
    [][(upgradeCritChance /\ state.score >= state.critChanceCost)
          => state'.achievementsUnlocked =
                state.achievementsUnlocked
                   \cup {Msg("crit", IF state.critChance + 1 > 50 THEN 50
                                     ELSE state.critChance + 1, 0)}
      ]_vars

\* Critical chance has been bought again after the second prestige: the
\* chance is 11% for the second time and its key is the one recorded the
\* first time.
CritBoughtAgainAfterPrestige ==
    /\ state.prestigeCount = 2
    /\ state.critChance = 11
    /\ state.critChanceCost = 4000
    /\ state.score = 500
    /\ state.achievementsUnlocked = {Msg("crit", 11, 0), Msg("prestige", 1, 0),
                                     Msg("prestige", 2, 0)}

----------------------------------------------------------------------------
(* The keys of the recurring events *)

\* Timed runs with the clock running, and manual saves made in the first
\* two seconds.
NextEvents ==
    \/ startTimed
    \/ \E i \in 1..Len(timedIntervals) : timedCountdown(i)
    \/ PlayerActs /\ saveNow
    \/ autoClickLoop
    \/ dailyTick
    \/ trailingPersist
    \/ Advance

SpecEvents == InitCountdown /\ [][NextEvents]_vars

----------------------------------------------------------------------------
(* Click milestones *)

\* A first visit played up to the click after the first milestone.
NextMilestone ==
    \/ \E isCrit \in BOOLEAN :
          state.totalClicks < MaxMilestoneClicks /\ clickButton(isCrit)
    \/ upgradeAuto
    \/ autoClickLoop
    \/ dailyTick

InitMilestone == Init /\ clickerState = <<>>

SpecMilestone == InitMilestone /\ [][NextMilestone]_vars

----------------------------------------------------------------------------
(* Loading an older save *)

\* Saves of an older format: the snapshot of a session whose prestigeCost
\* is 0, and the snapshot of a session written without the field.
OlderSaves ==
    { Snapshot([SavedSession EXCEPT !.prestigeCost = 0]),
      [f \in DOMAIN Snapshot(VeteranSession) \ {"prestigeCost"} |->
          Snapshot(VeteranSession)[f]] }

\* the script run from the top on a page load or on location.reload(); the
\* call of setTheme inside loadPersisted() returns, as in the earlier copy
\* that defines the function, or throws, as in the copy that does not
reloadPage(completes) ==
    /\ state' = (IF completes
                 THEN pageLoad(clickerState)
                 ELSE initVolumeControls(
                        loadPersistedThemeless(DefaultState, clickerState)))
    /\ lastPersist' = 0
    /\ pendingPersist' = FALSE
    /\ persistDue' = 0
    /\ timedIntervals' = <<>>
    /\ nextAutoTick' = now + TickMs
    /\ nextDailyTick' = now + TickMs
    /\ importToast' = ""
    /\ UNCHANGED <<now, clickerState, dailyKey, dailyStarted, today, scores,
                   backups, announced>>

\* A page that has loaded an older save, by either of the two loads.
InitOlder ==
    /\ clickerState \in {<<s>> : s \in OlderSaves}
    /\ \E completes \in BOOLEAN :
          state = (IF completes
                   THEN pageLoad(clickerState)
                   ELSE initVolumeControls(
                          loadPersistedThemeless(DefaultState, clickerState)))
    /\ lastPersist = 0
    /\ today = 1
    /\ dailyKey = today
    /\ dailyStarted = (IF state.daily.active THEN today ELSE 0)
    /\ now = StartTime
    /\ pendingPersist = FALSE
    /\ persistDue = 0
    /\ nextAutoTick = StartTime
    /\ nextDailyTick = StartTime
    /\ timedIntervals = <<>>
    /\ scores = <<>>
    /\ importToast = ""
    /\ backups = {}
    /\ announced = [t \in state.achievementsUnlocked |-> 1]

\* Clicks, purchases and manual saves on such a page, and reloads of it.
NextOlder ==
    \/ \E isCrit \in BOOLEAN : Click(isCrit)
    \/ upgradeAuto
    \/ saveNow
    \/ \E completes \in BOOLEAN : reloadPage(completes)

SpecOlder == InitOlder /\ [][NextOlder]_vars

\* C36: a load of a stored snapshot whose prestigeCost is missing or falsy
\* leaves state.prestigeCost at 20000, every other field of the snapshot
\* holds the stored value and every field absent from it the value it had
\* before the load.
LoadDefaultsPrestigeCost ==
    [][\A completes \in BOOLEAN :
          (/\ reloadPage(completes)
           /\ Len(clickerState) = 1
           /\ \/ "prestigeCost" \notin DOMAIN clickerState[1]
              \/ clickerState[1].prestigeCost = 0)
             => /\ state'.prestigeCost = PrestigeCostDefault
                /\ \A f \in DOMAIN clickerState[1] \ {"prestigeCost"} :
                      state'[f] = clickerState[1][f]
                /\ \A f \in DOMAIN DefaultState \ DOMAIN clickerState[1] :
                      f \notin {"prestigeCost", "soundVolumes"}
                         => state'[f] = DefaultState[f]
      ]_vars

----------------------------------------------------------------------------
(* The trailing save *)

\* C37: at most one trailing write is pending: a throttlePersist() call
\* that finds one pending leaves it and its due time as they are, a call
\* that schedules one is due one throttle window later, and the trailing
\* write stores the state as it is when the write fires and leaves nothing
\* pending.
OneTrailingWrite ==
    [][ /\ (pendingPersist /\ ~trailingPersist)
              => (pendingPersist' /\ persistDue' = persistDue)
        /\ (~pendingPersist /\ pendingPersist')
              => /\ persistDue' = now + PERSIST_THROTTLE_MS
                 /\ clickerState' = clickerState
        /\ trailingPersist
              => /\ ~pendingPersist'
                 /\ state' = state
                 /\ clickerState' = <<Snapshot(state)>>
                 /\ lastPersist' = now
      ]_vars

\* The trailing write scheduled in the first second has fired at its due
\* time and stored a sound setting that was changed after the first write.
TrailingWriteFired ==
    /\ ~pendingPersist
    /\ persistDue = StartTime + PERSIST_THROTTLE_MS
    /\ lastPersist = now
    /\ now = StartTime + TimeStep
    /\ clickerState = <<Snapshot(state)>>
    /\ ~state.soundOn

\* C38: no save request is lost while the page stays open.  After every
\* step taken at one reading of the clock, a state that the store does not
\* hold has a trailing write pending that is due at most one throttle
\* window after that reading, and the clock never moves past a write that
\* is due: the write happens first, and it stores the state of that moment.
NoSaveRequestLost ==
    [][ /\ (now' = now /\ clickerState' # <<Snapshot(state')>>
              /\ ~(clickerState' = <<>> /\ state' = FirstVisit))
              => /\ pendingPersist'
                 /\ persistDue' <= now + PERSIST_THROTTLE_MS
        /\ (now' > now /\ pendingPersist) => persistDue > now
        /\ (pendingPersist /\ ~pendingPersist')
              => clickerState' = <<Snapshot(state')>>
      ]_vars

\* A setting changed after an earlier write of the same second is waiting
\* for its trailing write, in a window after the first one.
SaveWaitingInLaterWindow ==
    /\ pendingPersist
    /\ clickerState # <<Snapshot(state)>>
    /\ lastPersist > StartTime
    /\ persistDue = now + PERSIST_THROTTLE_MS

----------------------------------------------------------------------------
(* Prestige progression *)

\* A first visit that has banked 60500 points from bonus pickups: enough
\* for the first two prestiges.
PrestigeSession == [FirstVisit EXCEPT !.score = 60500]

InitPrestige ==
    /\ clickerState = <<>>
    /\ state = PrestigeSession
    /\ today = 1
    /\ dailyKey = 0
    /\ dailyStarted = 0
    /\ now = StartTime
    /\ lastPersist = 0
    /\ pendingPersist = FALSE
    /\ persistDue = 0
    /\ nextAutoTick = StartTime
    /\ nextDailyTick = StartTime
    /\ timedIntervals = <<>>
    /\ scores = <<>>
    /\ importToast = ""
    /\ backups = {}
    /\ announced = [t \in state.achievementsUnlocked |-> 1]

\* Clicks, purchases, mode starts, prestiges and the 1 Hz callbacks of one
\* reading of the clock; no load and no import.
NextPrestige ==
    \/ \E isCrit \in BOOLEAN : Click(isCrit)
    \/ upgradeAuto
    \/ startTimed
    \/ startDaily(3000, 3)
    \/ \E confirmed \in BOOLEAN : doPrestige(confirmed)
    \/ autoClickLoop
    \/ dailyTick

SpecPrestige == InitPrestige /\ [][NextPrestige]_vars

\* C39: from the defaults, prestigeBonus = 10 * prestigeCount and
\* prestigeCost = 20000 * 2^prestigeCount in every state, and neither
\* prestigeBonus nor prestigeCount ever decreases.
PrestigeProgression ==
    [][ /\ state'.prestigeBonus = 10 * state'.prestigeCount
        /\ state'.prestigeCost = 20000 * 2^(state'.prestigeCount)
        /\ state'.prestigeBonus >= state.prestigeBonus
        /\ state'.prestigeCount >= state.prestigeCount
      ]_vars

\* The first prestige has been bought and play has gone on: an auto-clicker
\* was bought afterwards.
PlayedOnAfterPrestige ==
    /\ state.prestigeCount = 1
    /\ state.prestigeCost = 40000
    /\ state.autoClickers > 0

----------------------------------------------------------------------------
(* One countdown per timed run *)

\* C40: at most one timed countdown runs, one runs exactly while
\* timedActive is true, and timedTimeLeft stays within 0..60, whatever the
\* interleaving of startTimed with purchases, prestige and import.
OneCountdownWhileActive ==
    /\ Len(timedIntervals) <= 1
    /\ state.timedActive <=> (Len(timedIntervals) = 1)
    /\ state.timedTimeLeft \in 0..60

====
